---- MODULE Spec2Model ----
(***************************************************************************)
(* routeBall: GlassCapture (capture.py), VideoStorage (storage.py), the    *)
(* stream responders (stream.py) and the orchestration of main.py.         *)
(*                                                                         *)
(* Five specifications share the definitions below:                        *)
(*   Spec       the program as main() runs it: the main thread statement   *)
(*              by statement, the shutdown signal handler that interrupts  *)
(*              it between statements, and the viewer threads that read    *)
(*              latest_frame under the lock;                               *)
(*   SpecLive   main() and the viewers while no signal arrives, with the   *)
(*              fairness of the threads' scheduling and of the lock;       *)
(*   SpecStop   main() with stop() called from one other thread, the main  *)
(*              thread fair;                                               *)
(*   SpecAPI    any sequence of calls of the public methods of one         *)
(*              GlassCapture and one VideoStorage, each call one step;     *)
(*   SpecStream any sequence of requests to the stream responders and of   *)
(*              calls of the source they read.                             *)
(***************************************************************************)
EXTENDS Integers, Sequences, FiniteSets, TLC

\* ---------------------------------------------------------------- bounds
MaxReads == 2
MaxClock == 2
NumReaders == 2
MaxOps == 4
MaxSignals == 1
MaxThreshold == 1
MaxCalls == 5

\* ------------------------------------------------------ program constants
\* VideoStorage.__init__: self._fps = 30
DefaultFps == 30
\* _should_rotate: st_size / (1024 * 1024)
MB == 1024 * 1024

Readers == 1..NumReaders
Paths == 1..MaxClock
\* StorageConfig.max_file_size_mb is any int; -1 and 0 disable rotation
Thresholds == (-1)..MaxThreshold
\* fps values a caller passes to open()
FpsValues == {15, DefaultFps}
\* bytes by which one encoded frame may grow the file on disk (the writer
\* buffers, so a write may leave the on-disk size unchanged)
Growths == {0, MB}

\* ----------------------------------------------------------------- frames
\* A frame is an array object: obj is the identity of the ndarray, lo and hi
\* are the two halves of its pixel data, both carrying the capture sequence.
NoFrame == [obj |-> 0, lo |-> 0, hi |-> 0]

\* cap.read() returns a newly allocated array holding the k-th frame
DeviceFrame(k) == [obj |-> k, lo |-> k, hi |-> k]

\* a bug: latest_frame hands out the slot's own array
AliasFrame(f, r) == f

\* ndarray.copy(): a new array object, owned by reader r, with the same data
CopyFrame(f, r) == [f EXCEPT !.obj = 0 - r]

\* a bug: the slot is only filled while it is empty
KeepFirst(old, frame) == IF old = NoFrame THEN frame ELSE old

\* read_frame: self._latest_frame = frame
SlotAfterStore(old, frame) == frame

\* --------------------------------------------------------------- capture
\* GlassCapture.__init__
CaptureInit == [cap |-> "None", running |-> FALSE, lock |-> 0, latest_frame |-> NoFrame]

\* start(): _start_rtsp/_start_adb bind self._cap before the isOpened test,
\* so a failed start leaves an unopened capture object behind
StartOp(c, ok) ==
    IF ok THEN [c EXCEPT !.cap = "opened", !.running = TRUE]
    ELSE [c EXCEPT !.cap = "unopened"]

\* read_frame: if self._cap is None or not self._running: return None
ReadGuard(c) == c.cap = "None" \/ ~c.running

\* read_frame: with self._lock: self._latest_frame = frame
StoreSlot(c, frame) == [c EXCEPT !.latest_frame = SlotAfterStore(@, frame)]

\* latest_frame: self._latest_frame.copy() if ... is not None else None
LatestFrameOf(c, r) ==
    IF c.latest_frame # NoFrame THEN CopyFrame(c.latest_frame, r) ELSE NoFrame

\* a bug: the responder keeps the lock while it encodes and emits
ViewerKeepsLock(c, r) == c

\* latest_frame: the with block ends before the copy is returned to r
ViewerRelease(c, r) == [c EXCEPT !.lock = IF @ = r THEN 0 ELSE @]

\* a bug: the callback is invoked whatever read_frame returned
CallbackAlways(f, save) == IF save THEN "wf_guard" ELSE "rl_while"

\* run_loop: if frame is not None and on_frame: on_frame(frame), and
\* main.on_frame: if storage: storage.write_frame(frame); the next statement
CallbackTarget(f, save) == IF f # NoFrame /\ save THEN "wf_guard" ELSE "rl_while"

\* a bug: stop() leaves the running flag set
StopKeepsRunning(c) == c

\* stop(): self._running = False
StopFlag(c) == [c EXCEPT !.running = FALSE]

\* stop(): self._cap.release(); the capture object stays bound, released
StopRelease(c) == [c EXCEPT !.cap = "released"]

\* stop(): self._cap = None
StopClear(c) == [c EXCEPT !.cap = "None"]

\* read_frame: the values of ret that self._cap.read() can give: a capture
\* that was released, or never opened, reads nothing
ReadOutcomes(c) == IF c.cap = "opened" THEN BOOLEAN ELSE {FALSE}

\* a bug: stop() clears the flag and keeps the transport
StopLeavesTransport(c) == StopFlag(c)

\* stop(): self._running = False; release and drop the capture if any
StopOp(c) == [c EXCEPT !.running = FALSE, !.cap = "None"]

\* the number of self._cap.release() calls after stop()
StopReleases(c, n) == IF c.cap # "None" THEN n + 1 ELSE n

\* ---------------------------------------------------------------- stream
\* what a responder hands to the server: kind is "error" (a JSON object
\* {"error": ...}), "image" (a response of media type image/jpeg), "part"
\* (one part yielded by the MJPEG generator) or "nothing" (an iteration of
\* the generator that yielded nothing); next is where the generator goes on
NoResponse == [kind |-> "none", error |-> "", body |-> <<>>, next |-> "none"]

ErrorResponse(text) == [kind |-> "error", error |-> text, body |-> <<>>, next |-> "none"]

\* a bug: the encoder gives no bytes
JpegEncodeEmpty(f, quality) == [ret |-> TRUE, bytes |-> <<>>]

\* cv2.imencode(".jpg", frame, [IMWRITE_JPEG_QUALITY, quality]): a captured
\* frame encodes to a non-empty buffer made from its pixels and the quality
JpegEncode(f, quality) == [ret |-> f # NoFrame, bytes |-> <<quality, f.lo, f.hi>>]

\* a bug: snapshot() does not test _frame_source
SnapshotIgnoresSource(fs, c, r) ==
    LET f == LatestFrameOf(c, r)
        e == JpegEncode(f, 90)
    IN  IF f = NoFrame THEN ErrorResponse("No frame available")
        ELSE [kind |-> "image", error |-> "", body |-> e.bytes, next |-> "none"]

\* snapshot(): fs is whether _frame_source is set, c the source it refers to
Snapshot(fs, c, r) ==
    IF ~fs THEN ErrorResponse("No capture source available")
    ELSE LET f == LatestFrameOf(c, r)
             e == JpegEncode(f, 90)
         IN  IF f = NoFrame THEN ErrorResponse("No frame available")
             ELSE IF ~e.ret THEN ErrorResponse("Failed to encode frame")
             ELSE [kind |-> "image", error |-> "", body |-> e.bytes, next |-> "none"]

\* an iteration of the generator's loop that reaches a continue
NothingEmitted == [kind |-> "nothing", error |-> "", body |-> <<>>, next |-> "poll"]

\* a bug: the generator emits a part for an empty slot
MjpegEmitsAlways(fs, c, r, quality) ==
    [kind |-> "part", error |-> "", body |-> JpegEncode(LatestFrameOf(c, r), quality).bytes,
     next |-> "poll"]

\* _generate_mjpeg: one iteration of while True. It keeps nothing from one
\* iteration to the next; a part is the boundary line, the Content-Type
\* header and the JPEG bytes, which are its body here; after a continue or a
\* yield the loop goes on at its head
MjpegIteration(fs, c, r, quality) ==
    IF ~fs THEN NothingEmitted
    ELSE LET f == LatestFrameOf(c, r)
             e == JpegEncode(f, quality)
         IN  IF f = NoFrame THEN NothingEmitted
             ELSE IF ~e.ret THEN NothingEmitted
             ELSE [kind |-> "part", error |-> "", body |-> e.bytes, next |-> "poll"]

\* --------------------------------------------------------------- storage
\* VideoStorage.__init__
StorageInit == [writer |-> "None", current_path |-> 0, frame_count |-> 0, fps |-> DefaultFps]

\* a file of the output directory: open is whether a VideoWriter holds it
NoFile == [exists |-> FALSE, open |-> FALSE, size |-> 0, frames |-> <<>>, fps |-> 0]

\* The Recorder and what it acts on: s the VideoStorage fields, f the files of
\* the output directory, l the "Recording saved" log lines, r the number of
\* writer.release() calls.
World(s, f, l, r) == [s |-> s, f |-> f, l |-> l, r |-> r]

\* is_recording
IsRecording(s) == s.writer # "None" /\ s.writer = "opened"

\* open(): self._fps = fps; the path is prefix + timestamp + container
OpenPath(w, fps, t) == [w EXCEPT !.s.fps = fps, !.s.current_path = t]

\* rebinding self._writer drops the last reference to the writer it held:
\* the VideoWriter is destroyed, which releases the file it had open
DropWriter(w, p) ==
    IF w.s.writer = "opened" /\ p # 0 THEN [w EXCEPT !.f[p].open = FALSE] ELSE w

\* open(): self._writer = cv2.VideoWriter(path, fourcc, fps, size); a writer
\* that opens creates or truncates the file at the path; old is the path of
\* the writer that self._writer held before
OpenWriterAt(w, old, ok) ==
    LET d == DropWriter(w, old)
    IN  [d EXCEPT !.s.writer = IF ok THEN "opened" ELSE "unopened",
                  !.f[w.s.current_path] =
                      IF ok THEN [exists |-> TRUE, open |-> TRUE, size |-> 0,
                                  frames |-> <<>>, fps |-> w.s.fps]
                      ELSE @]

\* a bug: open() leaves the previous session's frame count
OpenKeepsCount(w) == w

\* open(): self._frame_count = 0
OpenReset(w) == [w EXCEPT !.s.frame_count = 0]

\* open(), whole: raises IOError when the writer is not opened
OpenOp(w, fps, t, ok) ==
    LET w2 == OpenWriterAt(OpenPath(w, fps, t), w.s.current_path, ok)
    IN  IF ~IsRecording(w2.s) THEN [w |-> w2, err |-> "IOError"]
        ELSE [w |-> OpenReset(w2), err |-> "ok"]

\* a bug: the writer puts the frame before the ones it holds
WriterWritePrepends(w, k, grow) ==
    IF w.s.writer = "opened"
    THEN [w EXCEPT !.f[w.s.current_path] =
                       [@ EXCEPT !.frames = <<k>> \o @, !.size = @ + grow]]
    ELSE w

\* write_frame: self._writer.write(frame); an unopened writer ignores it
WriterWrite(w, k, grow) ==
    IF w.s.writer = "opened"
    THEN [w EXCEPT !.f[w.s.current_path] =
                       [@ EXCEPT !.frames = Append(@, k), !.size = @ + grow]]
    ELSE w

\* write_frame: self._frame_count += 1
IncCount(w) == [w EXCEPT !.s.frame_count = @ + 1]

\* a bug: the size test is strict
ShouldRotateStrict(s, f, max_mb, statOK) ==
    IF max_mb <= 0 \/ s.current_path = 0 THEN FALSE
    ELSE IF ~(statOK /\ f[s.current_path].exists) THEN FALSE
    ELSE f[s.current_path].size > max_mb * MB

\* _should_rotate: stat() finds the file if it exists and statOK (it is not
\* missing at this moment); for an integer threshold, size / MB >= max_mb
\* exactly when size \div MB >= max_mb
ShouldRotate(s, f, max_mb, statOK) ==
    IF max_mb <= 0 \/ s.current_path = 0 THEN FALSE
    ELSE IF ~(statOK /\ f[s.current_path].exists) THEN FALSE
    ELSE (f[s.current_path].size \div MB) >= max_mb

\* close(): self._writer.release()
CloseRelease(w) ==
    [w EXCEPT !.s.writer = "unopened", !.r = @ + 1,
              !.f = IF w.s.writer = "opened"
                    THEN [@ EXCEPT ![w.s.current_path].open = FALSE] ELSE @]

\* a bug: close() releases the writer and keeps the reference
CloseKeepsWriter(w) ==
    [w EXCEPT !.l = Append(@, [path |-> w.s.current_path, frames |-> w.s.frame_count])]

\* close(): self._writer = None, then the "Recording saved" log line
CloseClear(w) ==
    [w EXCEPT !.s.writer = "None",
              !.l = Append(@, [path |-> w.s.current_path, frames |-> w.s.frame_count])]

\* a bug: close() releases without testing for None
CloseUnguarded(w) == CloseClear(CloseRelease(w))

\* close(), whole
CloseOp(w) == IF w.s.writer # "None" THEN CloseClear(CloseRelease(w)) ELSE w

\* a bug: the rotation test runs before the frame is counted
WriteFrameCountsLate(w, max_mb, k, grow, statOK, t, ok) ==
    IF w.s.writer = "None"
    THEN [w |-> w, err |-> "InvalidState", rotated |-> FALSE]
    ELSE LET w1 == WriterWrite(w, k, grow)
         IN  IF ShouldRotate(w1.s, w1.f, max_mb, statOK)
             THEN LET o == OpenOp(CloseOp(w1), w1.s.fps, t, ok)
                  IN  [w |-> IncCount(o.w), err |-> o.err, rotated |-> TRUE]
             ELSE [w |-> IncCount(w1), err |-> "ok", rotated |-> FALSE]

\* write_frame, whole: k the frame's sequence, grow the bytes the write adds
\* on disk, statOK the outcome of stat(), t and ok the clock and the writer's
\* fate at a reopen
WriteFrameOp(w, max_mb, k, grow, statOK, t, ok) ==
    IF w.s.writer = "None"
    THEN [w |-> w, err |-> "InvalidState", rotated |-> FALSE]
    ELSE LET w1 == IncCount(WriterWrite(w, k, grow))
         IN  IF ShouldRotate(w1.s, w1.f, max_mb, statOK)
             THEN LET o == OpenOp(CloseOp(w1), w1.s.fps, t, ok)
                  IN  [w |-> o.w, err |-> o.err, rotated |-> TRUE]
             ELSE [w |-> w1, err |-> "ok", rotated |-> FALSE]

\* ------------------------------------------------------------------ state
VARIABLES
    config,        \* AppConfig fields read by main(): save_locally, enable_streaming, max_file_size_mb, fps
    capture,       \* the GlassCapture object: cap, running, lock (0 free, else holder), latest_frame
    cap_releases,  \* number of self._cap.release() calls
    storage,       \* the VideoStorage object: writer, current_path, frame_count, fps
    files,         \* the files of output_dir, by timestamp of their name
    log,           \* the "Recording saved: path (n frames)" lines of close()
    releases,      \* number of self._writer.release() calls
    now,           \* datetime.now(), in seconds
    reads,         \* number of successful cap.read() calls
    returned,      \* number of frames read_frame has returned to its caller
    accepted,      \* sequences of the frames whose write_frame ran self._writer.write
    offered,       \* number of write_frame calls of the API driver
    handed,        \* sequences of the frames passed to write_frame, in call order
    pc,            \* the main thread's next statement
    frame,         \* run_loop's local: the result of the last read_frame
    caller,        \* who called open(): "main" or "write_frame"
    hpc,           \* the signal handler shutdown(): its next statement
    signals,       \* number of signals delivered
    stop_calls,    \* number of capture.stop() calls
    frame_source,  \* stream._frame_source is set
    rpc,           \* each viewer thread's next statement in latest_frame
    rval,          \* each viewer's last result of latest_frame
    rstart,        \* per viewer: frames read_frame had returned when the call took the lock
    lastOp,        \* the API driver's last call
    prevOp,        \* the API driver's call before that
    nops,          \* number of API calls made
    err,           \* the exception the last call raised, or "ok"
    rotated,       \* the last write_frame rotated
    open_called,   \* open() was called since construction or the last close() call
    lastStat,      \* what the last _should_rotate's stat() saw: known, size
    spc,           \* a thread that calls capture.stop(): its next statement
    stop_reads,    \* number of successful cap.read() calls when stop() began
    resp           \* what the last call of a stream responder gave its client

vars == <<config, capture, cap_releases, storage, files, log, releases, now, reads,
          returned, open_called,
          accepted, offered, handed, pc, frame, caller, hpc, signals, stop_calls, frame_source,
          rpc, rval, rstart, lastOp, prevOp, nops, err, rotated, lastStat, spc, stop_reads,
          resp>>

captureVars == <<capture, cap_releases, reads, returned, frame, stop_calls>>
storageVars == <<storage, files, log, releases, now, accepted, offered, handed, rotated,
                 lastStat, open_called>>
threadVars == <<pc, caller, hpc, signals>>
viewerVars == <<frame_source, rpc, rval, rstart>>
apiVars == <<lastOp, prevOp, nops>>
stopVars == <<spc, stop_reads>>

\* the Recorder's world in the current state
W == World(storage, files, log, releases)

InitObjects ==
    /\ capture = CaptureInit
    /\ cap_releases = 0
    /\ storage = StorageInit
    /\ files = [p \in Paths |-> NoFile]
    /\ log = <<>>
    /\ releases = 0
    /\ now = 1
    /\ reads = 0
    /\ returned = 0
    /\ open_called = FALSE
    /\ accepted = {}
    /\ offered = 0
    /\ handed = <<>>
    /\ frame = NoFrame
    /\ caller = "none"
    /\ hpc = "none"
    /\ signals = 0
    /\ stop_calls = 0
    /\ frame_source = FALSE
    /\ rpc = [r \in Readers |-> "idle"]
    /\ rval = [r \in Readers |-> NoFrame]
    /\ rstart = [r \in Readers |-> 0]
    /\ lastOp = "none"
    /\ prevOp = "none"
    /\ nops = 0
    /\ err = "ok"
    /\ rotated = FALSE
    /\ lastStat = [known |-> FALSE, size |-> 0]
    /\ spc = "none"
    /\ stop_reads = 0
    /\ resp = NoResponse

\* ------------------------------------------------ SpecAPI: calls of the API
InitAPI ==
    /\ InitObjects
    /\ config \in [save_locally : {TRUE}, enable_streaming : {TRUE},
                   max_file_size_mb : Thresholds, fps : {DefaultFps}]
    /\ pc = "api"

\* the number of calls a driver makes: of the API, or of the responders
CallBound == IF pc = "serve" THEN MaxCalls ELSE MaxOps

\* bookkeeping of one API call
Called(op) ==
    /\ nops < CallBound
    /\ nops' = nops + 1
    /\ prevOp' = lastOp
    /\ lastOp' = op

\* capture.start(); the caller does not start a running source
ApiStart ==
    /\ ~capture.running
    /\ Called("start")
    /\ \E ok \in BOOLEAN :
          /\ capture' = StartOp(capture, ok)
          /\ err' = IF ok THEN "ok" ELSE "ConnectionError"
    /\ UNCHANGED <<config, cap_releases, reads, returned, frame, stop_calls, storageVars,
                   threadVars, viewerVars, stopVars, resp>>

\* capture.read_frame()
ApiReadFrame ==
    /\ Called("read_frame")
    /\ \E ret \in BOOLEAN :
          IF ReadGuard(capture) \/ ~ret
          THEN /\ frame' = NoFrame
               /\ UNCHANGED <<capture, reads, returned>>
          ELSE /\ reads < MaxReads
               /\ reads' = reads + 1
               /\ returned' = returned + 1
               /\ capture' = StoreSlot(capture, DeviceFrame(reads + 1))
               /\ frame' = DeviceFrame(reads + 1)
    /\ err' = "ok"
    /\ UNCHANGED <<config, cap_releases, stop_calls, storageVars, threadVars, viewerVars, stopVars, resp>>

\* capture.latest_frame, read by viewer r
ApiLatestFrame(r) ==
    /\ Called("latest_frame")
    /\ rval' = [rval EXCEPT ![r] = LatestFrameOf(capture, r)]
    /\ err' = "ok"
    /\ UNCHANGED <<config, captureVars, storageVars, threadVars, frame_source, rpc, rstart, stopVars, resp>>

\* capture.stop()
ApiStop ==
    /\ Called("stop")
    /\ capture' = StopOp(capture)
    /\ cap_releases' = StopReleases(capture, cap_releases)
    /\ stop_calls' = stop_calls + 1
    /\ err' = "ok"
    /\ UNCHANGED <<config, reads, returned, frame, storageVars, threadVars, viewerVars, stopVars, resp>>

\* storage.open(width, height, fps)
ApiOpen ==
    /\ Called("open")
    /\ \E fps \in FpsValues, t \in now..MaxClock, ok \in BOOLEAN :
          LET o == OpenOp(W, fps, t, ok)
          IN  /\ storage' = o.w.s
              /\ files' = o.w.f
              /\ log' = o.w.l
              /\ releases' = o.w.r
              /\ err' = o.err
              /\ now' = t
    /\ open_called' = TRUE
    /\ UNCHANGED <<config, captureVars, accepted, offered, handed, rotated, lastStat,
                   threadVars, viewerVars, stopVars, resp>>

\* storage.write_frame(frame), with the next synthetic frame
ApiWriteFrame ==
    /\ Called("write_frame")
    /\ offered' = offered + 1
    /\ handed' = Append(handed, offered + 1)
    /\ \E grow \in Growths, statOK \in BOOLEAN, t \in now..MaxClock, ok \in BOOLEAN :
          LET o == WriteFrameOp(W, config.max_file_size_mb, offered + 1, grow, statOK, t, ok)
              seen == WriterWrite(W, offered + 1, grow).f
          IN  /\ storage' = o.w.s
              /\ files' = o.w.f
              /\ log' = o.w.l
              /\ releases' = o.w.r
              /\ err' = o.err
              /\ rotated' = o.rotated
              /\ now' = IF o.rotated THEN t ELSE now
              /\ accepted' = IF o.err = "InvalidState" THEN accepted
                             ELSE accepted \cup {offered + 1}
              /\ lastStat' = IF o.err = "InvalidState" THEN lastStat
                             ELSE LET found == statOK /\ seen[storage.current_path].exists
                                  IN  [known |-> found,
                                       size |-> IF found THEN seen[storage.current_path].size
                                                ELSE 0]
    /\ UNCHANGED <<config, captureVars, threadVars, viewerVars, open_called, stopVars, resp>>

\* storage.close()
ApiClose ==
    /\ Called("close")
    /\ LET o == CloseOp(W)
       IN  /\ storage' = o.s
           /\ files' = o.f
           /\ log' = o.l
           /\ releases' = o.r
    /\ err' = "ok"
    /\ open_called' = FALSE
    /\ UNCHANGED <<config, captureVars, now, accepted, offered, handed, rotated, lastStat,
                   threadVars, viewerVars, stopVars, resp>>

NextAPI ==
    \/ ApiStart
    \/ ApiReadFrame
    \/ \E r \in Readers : ApiLatestFrame(r)
    \/ ApiStop
    \/ ApiOpen
    \/ ApiWriteFrame
    \/ ApiClose

SpecAPI == InitAPI /\ [][NextAPI]_vars

\* ------------------------- SpecStream: requests to the stream responders
InitStream ==
    /\ InitObjects
    /\ config \in [save_locally : {FALSE}, enable_streaming : {TRUE},
                   max_file_size_mb : {0}, fps : {DefaultFps}]
    /\ pc = "serve"

\* set_frame_source(capture)
ApiSetFrameSource ==
    /\ Called("set_frame_source")
    /\ frame_source' = TRUE
    /\ err' = "ok"
    /\ UNCHANGED <<config, captureVars, storageVars, threadVars, rpc, rval, rstart,
                   stopVars, resp>>

\* GET /snapshot, served for viewer r
ApiSnapshot(r) ==
    /\ Called("snapshot")
    /\ resp' = Snapshot(frame_source, capture, r)
    /\ err' = "ok"
    /\ UNCHANGED <<config, captureVars, storageVars, threadVars, viewerVars, stopVars>>

\* GET /stream for viewer r: the server runs the generator of
\* video_stream() for one iteration, with quality 80
ApiMjpeg(r) ==
    /\ Called("mjpeg")
    /\ resp' = MjpegIteration(frame_source, capture, r, 80)
    /\ err' = "ok"
    /\ UNCHANGED <<config, captureVars, storageVars, threadVars, viewerVars, stopVars>>

NextStream ==
    \/ ApiStart
    \/ ApiReadFrame
    \/ ApiStop
    \/ ApiSetFrameSource
    \/ \E r \in Readers : ApiSnapshot(r)
    \/ \E r \in Readers : ApiMjpeg(r)

SpecStream == InitStream /\ [][NextStream]_vars

\* ------------------------------------------- Spec: the program main() runs
Init ==
    /\ InitObjects
    /\ config \in [save_locally : BOOLEAN, enable_streaming : BOOLEAN,
                   max_file_size_mb : 0..MaxThreshold, fps : {DefaultFps}]
    /\ pc = "m_start"

\* the lock's holder when the main thread has it
MainId == NumReaders + 1

\* the process has ended: sys.exit, an uncaught exception, or main() returned
Ended == pc \in {"exited", "crashed", "returned"}

\* the main thread runs its next statement unless the handler is on its stack
MainAt(label) == pc = label /\ hpc = "none"

\* main: capture.start(), sys.exit(1) on ConnectionError
MStart ==
    /\ MainAt("m_start")
    /\ \E ok \in BOOLEAN :
          /\ capture' = StartOp(capture, ok)
          /\ pc' = IF ok THEN "m_open" ELSE "exited"
          /\ err' = IF ok THEN "ok" ELSE "ConnectionError"
    /\ UNCHANGED <<config, cap_releases, reads, returned, frame, stop_calls, storageVars,
                   caller, hpc, signals, viewerVars, apiVars, stopVars, resp>>

\* main: if storage: storage.open(width, height, fps)
MOpen ==
    /\ MainAt("m_open")
    /\ pc' = IF config.save_locally THEN "op_path" ELSE "m_stream"
    /\ caller' = "main"
    /\ UNCHANGED <<config, captureVars, storageVars, hpc, signals, viewerVars, apiVars, err, stopVars, resp>>

\* open: fps, mkdir, timestamp, current path
OpPath ==
    /\ MainAt("op_path")
    /\ \E t \in now..MaxClock :
          LET o == OpenPath(W, IF caller = "main" THEN config.fps ELSE storage.fps, t)
          IN  /\ storage' = o.s
              /\ now' = t
    /\ pc' = "op_writer"
    /\ UNCHANGED <<config, captureVars, files, log, releases, accepted, offered, handed, rotated,
                   lastStat, open_called, caller, hpc, signals, viewerVars, apiVars, err, stopVars, resp>>

\* open: the VideoWriter is constructed and bound to self._writer, which is
\* None here (nothing was opened yet, or write_frame has just closed)
OpWriter ==
    /\ MainAt("op_writer")
    /\ \E ok \in BOOLEAN :
          LET o == OpenWriterAt(W, 0, ok)
          IN  /\ storage' = o.s
              /\ files' = o.f
    /\ pc' = "op_check"
    /\ UNCHANGED <<config, captureVars, log, releases, now, accepted, offered, handed, rotated,
                   lastStat, open_called, caller, hpc, signals, viewerVars, apiVars, err, stopVars, resp>>

\* open: raise IOError unless isOpened(); nothing in main() catches it
OpCheck ==
    /\ MainAt("op_check")
    /\ IF ~IsRecording(storage)
       THEN /\ pc' = "crashed"
            /\ err' = "IOError"
       ELSE /\ pc' = "op_reset"
            /\ err' = err
    /\ UNCHANGED <<config, captureVars, storageVars, caller, hpc, signals, viewerVars, apiVars, stopVars, resp>>

\* open: the frame count is reset and the path returned
OpReset ==
    /\ MainAt("op_reset")
    /\ storage' = OpenReset(W).s
    /\ pc' = IF caller = "main" THEN "m_stream" ELSE "rl_while"
    /\ UNCHANGED <<config, captureVars, files, log, releases, now, accepted, offered, handed,
                   rotated, lastStat, open_called, caller, hpc, signals, viewerVars, apiVars, err, stopVars, resp>>

\* main: set_frame_source(capture) and the server thread, if streaming
MStream ==
    /\ MainAt("m_stream")
    /\ frame_source' = config.enable_streaming
    /\ pc' = "rl_while"
    /\ UNCHANGED <<config, captureVars, storageVars, caller, hpc, signals,
                   rpc, rval, rstart, apiVars, err, stopVars, resp>>

\* run_loop: while self._running
RlWhile ==
    /\ MainAt("rl_while")
    /\ pc' = IF capture.running THEN "rf_guard" ELSE "returned"
    /\ UNCHANGED <<config, captureVars, storageVars, caller, hpc, signals, viewerVars,
                   apiVars, err, stopVars, resp>>

\* read_frame: the guard on self._cap and self._running
RfGuard ==
    /\ MainAt("rf_guard")
    /\ IF ReadGuard(capture)
       THEN /\ frame' = NoFrame
            /\ pc' = "rl_cb"
       ELSE /\ frame' = frame
            /\ pc' = "rf_read"
    /\ UNCHANGED <<config, capture, cap_releases, reads, returned, stop_calls, storageVars, caller,
                   hpc, signals, viewerVars, apiVars, err, stopVars, resp>>

\* read_frame: ret, frame = self._cap.read(); a failed read returns None. If
\* another thread's stop() has set self._cap to None since the guard, the
\* attribute lookup on None raises AttributeError, which nothing catches
RfRead ==
    /\ MainAt("rf_read")
    /\ IF capture.cap = "None"
       THEN /\ pc' = "crashed"
            /\ err' = "AttributeError"
            /\ UNCHANGED <<reads, frame>>
       ELSE /\ err' = err
            /\ \E ret \in ReadOutcomes(capture) :
                  IF ret
                  THEN /\ reads < MaxReads
                       /\ reads' = reads + 1
                       /\ frame' = DeviceFrame(reads + 1)
                       /\ pc' = "rf_lock"
                  ELSE /\ reads' = reads
                       /\ frame' = NoFrame
                       /\ pc' = "rl_cb"
    /\ UNCHANGED <<config, capture, cap_releases, returned, stop_calls, storageVars, caller,
                   hpc, signals, viewerVars, apiVars, stopVars, resp>>

\* read_frame: with self._lock (acquire)
RfLock ==
    /\ MainAt("rf_lock")
    /\ capture.lock = 0
    /\ capture' = [capture EXCEPT !.lock = MainId]
    /\ pc' = "rf_store"
    /\ UNCHANGED <<config, cap_releases, reads, returned, frame, stop_calls, storageVars, caller,
                   hpc, signals, viewerVars, apiVars, err, stopVars, resp>>

\* read_frame: self._latest_frame = frame
RfStore ==
    /\ MainAt("rf_store")
    /\ capture' = StoreSlot(capture, frame)
    /\ pc' = "rf_unlock"
    /\ UNCHANGED <<config, cap_releases, reads, returned, frame, stop_calls, storageVars, caller,
                   hpc, signals, viewerVars, apiVars, err, stopVars, resp>>

\* read_frame: the lock is released and the frame returned to run_loop
RfUnlock ==
    /\ MainAt("rf_unlock")
    /\ capture' = [capture EXCEPT !.lock = 0]
    /\ returned' = returned + 1
    /\ pc' = "rl_cb"
    /\ UNCHANGED <<config, cap_releases, reads, frame, stop_calls, storageVars, caller,
                   hpc, signals, viewerVars, apiVars, err, stopVars, resp>>

\* run_loop: if frame is not None and on_frame; on_frame: if storage
RlCb ==
    /\ MainAt("rl_cb")
    /\ pc' = CallbackTarget(frame, config.save_locally)
    /\ handed' = IF pc' = "wf_guard" THEN Append(handed, frame.lo) ELSE handed
    /\ UNCHANGED <<config, captureVars, storage, files, log, releases, now, accepted, offered,
                   rotated, lastStat, open_called, caller, hpc, signals, viewerVars,
                   apiVars, err, stopVars, resp>>

\* write_frame: RuntimeError if self._writer is None
WfGuard ==
    /\ MainAt("wf_guard")
    /\ IF storage.writer = "None"
       THEN /\ pc' = "crashed"
            /\ err' = "InvalidState"
       ELSE /\ pc' = "wf_write"
            /\ err' = err
    /\ UNCHANGED <<config, captureVars, storageVars, caller, hpc, signals, viewerVars, apiVars, stopVars, resp>>

\* write_frame: self._writer.write(frame) is called: the main thread is
\* inside the writer's native code
WfWrite ==
    /\ MainAt("wf_write")
    /\ pc' = "wf_writing"
    /\ UNCHANGED <<config, captureVars, storageVars, caller, hpc, signals, viewerVars,
                   apiVars, err, stopVars, resp>>

\* write_frame: self._writer.write(frame) returns
WfWriteDone ==
    /\ MainAt("wf_writing")
    /\ \E grow \in Growths : files' = WriterWrite(W, frame.lo, grow).f
    /\ accepted' = accepted \cup {frame.lo}
    /\ pc' = "wf_count"
    /\ UNCHANGED <<config, captureVars, storage, log, releases, now, offered, handed, rotated,
                   lastStat, open_called, caller, hpc, signals, viewerVars, apiVars, err, stopVars, resp>>

\* write_frame: self._frame_count += 1
WfCount ==
    /\ MainAt("wf_count")
    /\ storage' = IncCount(W).s
    /\ pc' = "wf_rotate"
    /\ UNCHANGED <<config, captureVars, files, log, releases, now, accepted, offered, handed,
                   rotated, lastStat, open_called, caller, hpc, signals, viewerVars, apiVars, err, stopVars, resp>>

\* write_frame: if self._should_rotate()
WfRotate ==
    /\ MainAt("wf_rotate")
    /\ \E statOK \in BOOLEAN :
          pc' = IF ShouldRotate(storage, files, config.max_file_size_mb, statOK)
                THEN "cl_release" ELSE "rl_while"
    /\ UNCHANGED <<config, captureVars, storageVars, caller, hpc, signals, viewerVars,
                   apiVars, err, stopVars, resp>>

\* close, called by write_frame: if self._writer is not None: release()
ClRelease ==
    /\ MainAt("cl_release")
    /\ IF storage.writer # "None"
       THEN /\ storage' = CloseRelease(W).s
            /\ files' = CloseRelease(W).f
            /\ releases' = CloseRelease(W).r
            /\ pc' = "cl_clear"
            /\ caller' = caller
       ELSE /\ UNCHANGED <<storage, files, releases>>
            /\ pc' = "op_path"
            /\ caller' = "write_frame"
    /\ UNCHANGED <<config, captureVars, log, now, accepted, offered, handed, rotated,
                   lastStat, open_called, hpc, signals, viewerVars, apiVars, err, stopVars, resp>>

\* close, called by write_frame: self._writer = None and the log line; then
\* write_frame calls self.open(w, h, self._fps)
ClClear ==
    /\ MainAt("cl_clear")
    /\ storage' = CloseClear(W).s
    /\ log' = CloseClear(W).l
    /\ pc' = "op_path"
    /\ caller' = "write_frame"
    /\ UNCHANGED <<config, captureVars, files, releases, now, accepted, offered, handed, rotated,
                   lastStat, open_called, hpc, signals, viewerVars, apiVars, err, stopVars, resp>>

\* a bug: the handler starts while the main thread is inside a native call
HandlerRunsAnywhere(label) == TRUE

\* signal.signal(..., shutdown): a Python-level handler runs on the main
\* thread between two bytecodes, never inside a native call in progress
HandlerMayRun(label) == label # "wf_writing"

\* SIGINT or SIGTERM arrives: shutdown() starts on the main thread, also on
\* top of a shutdown() that has not reached sys.exit yet
Signal ==
    /\ ~Ended
    /\ HandlerMayRun(pc)
    /\ signals < MaxSignals
    /\ hpc \in {"none", "sd_close", "sd_exit"}
    /\ signals' = signals + 1
    /\ hpc' = "sd_stop"
    /\ UNCHANGED <<config, captureVars, storageVars, pc, caller, viewerVars, apiVars, err, stopVars, resp>>

\* shutdown: capture.stop()
SdStop ==
    /\ hpc = "sd_stop"
    /\ capture' = StopOp(capture)
    /\ cap_releases' = StopReleases(capture, cap_releases)
    /\ stop_calls' = stop_calls + 1
    /\ hpc' = "sd_close"
    /\ UNCHANGED <<config, reads, returned, frame, storageVars, pc, caller, signals, viewerVars,
                   apiVars, err, stopVars, resp>>

\* shutdown: if storage: storage.close()
SdClose ==
    /\ hpc = "sd_close"
    /\ LET o == IF config.save_locally THEN CloseOp(W) ELSE W
       IN  /\ storage' = o.s
           /\ files' = o.f
           /\ log' = o.l
           /\ releases' = o.r
    /\ hpc' = "sd_exit"
    /\ UNCHANGED <<config, captureVars, now, accepted, offered, handed, rotated, lastStat, open_called,
                   pc, caller, signals, viewerVars, apiVars, err, stopVars, resp>>

\* shutdown: sys.exit(0) unwinds the main thread, releasing a lock it holds
SdExit ==
    /\ hpc = "sd_exit"
    /\ hpc' = "done"
    /\ pc' = "exited"
    /\ capture' = [capture EXCEPT !.lock = IF @ = MainId THEN 0 ELSE @]
    /\ UNCHANGED <<config, cap_releases, reads, returned, frame, stop_calls, storageVars, caller,
                   signals, viewerVars, apiVars, err, stopVars, resp>>

\* a viewer thread may run while the process lives and the source is attached
ViewerAt(r, label) == rpc[r] = label /\ frame_source /\ ~Ended

\* a responder calls _frame_source.latest_frame: with self._lock (acquire)
RLock(r) ==
    /\ ViewerAt(r, "idle")
    /\ capture.lock = 0
    /\ capture' = [capture EXCEPT !.lock = r]
    /\ rpc' = [rpc EXCEPT ![r] = "lf_read"]
    /\ rstart' = [rstart EXCEPT ![r] = returned]
    /\ UNCHANGED <<config, cap_releases, reads, returned, frame, stop_calls, storageVars, threadVars,
                   frame_source, rval, apiVars, err, stopVars, resp>>

\* latest_frame: the copy of the slot, or None
RRead(r) ==
    /\ ViewerAt(r, "lf_read")
    /\ rval' = [rval EXCEPT ![r] = LatestFrameOf(capture, r)]
    /\ rpc' = [rpc EXCEPT ![r] = "lf_unlock"]
    /\ UNCHANGED <<config, captureVars, storageVars, threadVars, frame_source, rstart,
                   apiVars, err, stopVars, resp>>

\* latest_frame: the lock is released and the value returned
RUnlock(r) ==
    /\ ViewerAt(r, "lf_unlock")
    /\ capture' = ViewerRelease(capture, r)
    /\ rpc' = [rpc EXCEPT ![r] = "idle"]
    /\ rstart' = [rstart EXCEPT ![r] = 0]
    /\ UNCHANGED <<config, cap_releases, reads, returned, frame, stop_calls, storageVars, threadVars,
                   frame_source, rval, apiVars, err, stopVars, resp>>

Next ==
    \/ MStart
    \/ MOpen
    \/ OpPath
    \/ OpWriter
    \/ OpCheck
    \/ OpReset
    \/ MStream
    \/ RlWhile
    \/ RfGuard
    \/ RfRead
    \/ RfLock
    \/ RfStore
    \/ RfUnlock
    \/ RlCb
    \/ WfGuard
    \/ WfWrite
    \/ WfWriteDone
    \/ WfCount
    \/ WfRotate
    \/ ClRelease
    \/ ClClear
    \/ Signal
    \/ SdStop
    \/ SdClose
    \/ SdExit
    \/ \E r \in Readers : RLock(r)
    \/ \E r \in Readers : RRead(r)
    \/ \E r \in Readers : RUnlock(r)

Spec == Init /\ [][Next]_vars

\* the steps of the main thread, from capture.start() through run_loop
LoopThread ==
    \/ MStart
    \/ MOpen
    \/ OpPath
    \/ OpWriter
    \/ OpCheck
    \/ OpReset
    \/ MStream
    \/ RlWhile
    \/ RfGuard
    \/ RfRead
    \/ RfLock
    \/ RfStore
    \/ RfUnlock
    \/ RlCb
    \/ WfGuard
    \/ WfWrite
    \/ WfWriteDone
    \/ WfCount
    \/ WfRotate
    \/ ClRelease
    \/ ClClear

\* the steps of shutdown()
Shutdown == SdStop \/ SdClose \/ SdExit

\* viewer r inside latest_frame, holding the lock
InLatestFrame(r) == RRead(r) \/ RUnlock(r)

\* main() and the viewers while no signal arrives
NextLive ==
    \/ LoopThread
    \/ \E r \in Readers : RLock(r)
    \/ \E r \in Readers : RRead(r)
    \/ \E r \in Readers : RUnlock(r)

\* SpecLive: main() and the viewers with the scheduling the threads get.
\* The main thread is scheduled again and again, and gets the lock if the
\* lock is free again and again; a viewer inside latest_frame goes on to the
\* end of the with block. Nothing makes a viewer call latest_frame again: it
\* may be encoding, waiting for its client to take the last part, or gone.
SpecLive ==
    /\ Init
    /\ [][NextLive]_vars
    /\ WF_vars(LoopThread)
    /\ SF_vars(RfLock)
    /\ \A r \in Readers : WF_vars(InLatestFrame(r))

\* ------------- SpecStop: main() with stop() called from one other thread
\* another thread calls capture.stop() on the started source:
\* self._running = False
StCall ==
    /\ spc = "none"
    /\ ~Ended
    /\ capture.running
    /\ capture' = StopFlag(capture)
    /\ stop_calls' = stop_calls + 1
    /\ stop_reads' = reads
    /\ spc' = "st_check"
    /\ UNCHANGED <<config, cap_releases, reads, returned, frame, storageVars, threadVars,
                   viewerVars, apiVars, err, resp>>

\* stop: if self._cap is not None
StCheck ==
    /\ spc = "st_check"
    /\ spc' = IF capture.cap # "None" THEN "st_release" ELSE "done"
    /\ UNCHANGED <<config, captureVars, storageVars, threadVars, viewerVars, apiVars, err,
                   stop_reads, resp>>

\* stop: self._cap.release()
StRelease ==
    /\ spc = "st_release"
    /\ capture' = StopRelease(capture)
    /\ cap_releases' = cap_releases + 1
    /\ spc' = "st_clear"
    /\ UNCHANGED <<config, reads, returned, frame, stop_calls, storageVars, threadVars,
                   viewerVars, apiVars, err, stop_reads, resp>>

\* stop: self._cap = None, and stop() returns
StClear ==
    /\ spc = "st_clear"
    /\ capture' = StopClear(capture)
    /\ spc' = "done"
    /\ UNCHANGED <<config, cap_releases, reads, returned, frame, stop_calls, storageVars,
                   threadVars, viewerVars, apiVars, err, stop_reads, resp>>

NextStop ==
    \/ LoopThread
    \/ StCall
    \/ StCheck
    \/ StRelease
    \/ StClear

\* the main thread is scheduled again and again, and cap.read() returns
SpecStop == Init /\ [][NextStop]_vars /\ WF_vars(LoopThread)

\* ----------------------------------------------------------------- claims
RECURSIVE SumFrames(_)
\* the frames the "Recording saved" lines of the closed segments add up to
SumFrames(l) == IF l = <<>> THEN 0 ELSE Head(l).frames + SumFrames(Tail(l))

\* frame counts of all segments: the closed ones plus the open one
SegmentFrames == SumFrames(log) + (IF IsRecording(storage) THEN storage.frame_count ELSE 0)

\* the frames a file holds
FramesIn(p) == {files[p].frames[i] : i \in 1..Len(files[p].frames)}

\* one call of the API driver
ApiCall(op) == nops' = nops + 1 /\ lastOp' = op

C3_OneSessionOneFile ==
    /\ Cardinality({p \in Paths : files[p].open}) <= 1
    /\ \A k \in accepted : Cardinality({p \in Paths : k \in FramesIn(p)}) = 1

\* C4: a write_frame that rotates and returns has counted its frame in the
\* segment it closed, and leaves the Recorder open on an empty segment with a
\* frame count of 0 and the same fps; the write_frame after it lands in that
\* segment as its first frame.
C4_RotationAfterWrite ==
    [][/\ (ApiCall("write_frame") /\ rotated' /\ err' = "ok") =>
             /\ log' = Append(log, [path |-> storage.current_path,
                                    frames |-> storage.frame_count + 1])
             /\ IsRecording(storage')
             /\ storage'.frame_count = 0
             /\ storage'.fps = storage.fps
             /\ files'[storage'.current_path].fps = storage.fps
             /\ files'[storage'.current_path].frames = <<>>
       /\ (ApiCall("write_frame") /\ lastOp = "write_frame" /\ rotated /\ err = "ok") =>
             IF rotated'
             THEN log' = Append(log, [path |-> storage.current_path, frames |-> 1])
             ELSE /\ files'[storage.current_path].frames = <<offered'>>
                  /\ storage'.frame_count = 1]_vars

\* C4 witness: two write_frame calls in a row, the first rotated and the
\* second is the first frame of the new segment
C4_Witness ==
    /\ lastOp = "write_frame"
    /\ prevOp = "write_frame"
    /\ ~rotated
    /\ Len(log) >= 1
    /\ IsRecording(storage)
    /\ storage.frame_count = 1
    /\ files[storage.current_path].frames = <<offered>>

\* C5: write_frame on a Recorder on which open() was not called since it was
\* constructed or last closed raises InvalidState and changes nothing.
C5_WriteWhileClosed ==
    [][(ApiCall("write_frame") /\ ~open_called) =>
          /\ err' = "InvalidState"
          /\ storage' = storage
          /\ storage'.writer = "None"
          /\ files' = files
          /\ log' = log
          /\ releases' = releases
          /\ accepted' = accepted]_vars

\* C5 witness: write_frame right after close() on a Recorder that had recorded
C5_Witness ==
    /\ lastOp = "write_frame"
    /\ prevOp = "close"
    /\ err = "InvalidState"
    /\ releases = 1

\* C6: stop() leaves the source not running with its transport released and
\* close() leaves the Recorder closed; a second call right after the first
\* changes nothing and releases nothing again.
C6_Idempotence ==
    [][/\ ApiCall("stop") =>
             /\ ~capture'.running
             /\ capture'.cap = "None"
             /\ cap_releases' = cap_releases + (IF capture.cap # "None" THEN 1 ELSE 0)
             /\ lastOp = "stop" => (capture' = capture /\ cap_releases' = cap_releases)
       /\ ApiCall("close") =>
             /\ storage'.writer = "None"
             /\ releases' = releases + (IF storage.writer # "None" THEN 1 ELSE 0)
             /\ lastOp = "close" =>
                   (storage' = storage /\ releases' = releases /\ log' = log /\ files' = files)]_vars

\* C6 witness: close() twice in a row on a Recorder that was open
C6_Witness ==
    /\ lastOp = "close"
    /\ prevOp = "close"
    /\ releases = 1
    /\ storage.writer = "None"

\* C7: what latest_frame gave a viewer is empty or one complete frame that
\* read_frame stored in the slot, held in an array of the viewer's own.
C7_NoTornFrame ==
    \A r \in Readers :
        \/ rval[r] = NoFrame
        \/ /\ rval[r].lo = rval[r].hi
           /\ rval[r].lo \in 1..capture.latest_frame.lo
           /\ rval[r].obj # capture.latest_frame.obj
           /\ rval[r].obj \notin 1..reads

\* C7 witness: a viewer still holds frame 1 after the slot went on to frame 2
C7_Witness ==
    \E r \in Readers :
        /\ rval[r] # NoFrame
        /\ rval[r].lo < capture.latest_frame.lo

\* C8: the slot holds at least the last frame read_frame returned, a
\* latest_frame call returns at least the frame read_frame had returned when
\* the call took the lock, and a viewer's results never go backwards.
C8_Freshness ==
    /\ [](capture.latest_frame.lo >= returned)
    /\ [][\A r \in Readers :
             (rpc[r] = "lf_read" /\ rpc'[r] = "lf_unlock") =>
                 /\ rval'[r].lo >= rstart[r]
                 /\ rval'[r].lo >= rval[r].lo]_vars

\* C8 witness: a call that began after read_frame returned frame 2 got frame 2
C8_Witness ==
    \E r \in Readers :
        /\ rpc[r] = "lf_unlock"
        /\ rstart[r] >= 2
        /\ rval[r].lo >= rstart[r]

\* C9: a failed cap.read() makes read_frame return None without an exception
\* and without touching the slot or the running flag; run_loop then goes back
\* to the head of the loop without calling the Recorder.
C9_FailedReadAbsorbed ==
    [][/\ (MainAt("rf_read") /\ pc' \notin {"rf_read", "rf_lock"}) =>
             /\ pc' = "rl_cb"
             /\ frame' = NoFrame
             /\ capture' = capture
             /\ err' = err
       /\ (MainAt("rl_cb") /\ frame = NoFrame /\ pc' # pc) =>
             /\ pc' = "rl_while"
             /\ <<storage, files, log, accepted>>' = <<storage, files, log, accepted>>
       /\ (MainAt("rl_while") /\ frame = NoFrame /\ capture.running /\ pc' # pc) =>
             pc' = "rf_guard"]_vars

\* C9 witness: back at the head of the loop after a read failed, with frames
\* read before it
C9_Witness ==
    /\ pc = "rl_while"
    /\ hpc = "none"
    /\ frame = NoFrame
    /\ reads >= 1
    /\ capture.running

\* C10: run_loop is left only after stop() was called.
C10_LoopEndsOnlyAfterStop ==
    (\/ pc = "returned"
     \/ (pc = "crashed" /\ caller = "write_frame")
     \/ (pc = "exited" /\ err # "ConnectionError")) => stop_calls >= 1

\* run_loop has been left: it returned, an exception left it, or sys.exit
LoopLeft == pc \in {"returned", "crashed", "exited"}

\* C11: once stop() has cleared the running flag, run_loop is left; from then
\* on cap.read() succeeds at most once more, and only for a read_frame that
\* had passed its guard, and the slot and the Recorder receive no frame past
\* that one; with no read_frame under way nothing is read at all.
C11_CancellationLiveness ==
    /\ (stop_calls >= 1) ~> LoopLeft
    /\ [](stop_calls >= 1 =>
             /\ reads <= stop_reads + 1
             /\ capture.latest_frame.lo <= stop_reads + 1
             /\ \A k \in accepted : k <= stop_reads + 1)
    /\ [][stop_calls >= 1 =>
             /\ reads' # reads => pc = "rf_read"
             /\ pc \in {"rl_while", "rf_guard"} => pc' # "rf_read"]_vars

\* C11 witness: stop() began while read_frame was past its guard; that read
\* succeeded, its frame went to the slot and the Recorder, and run_loop returned
C11_Witness ==
    /\ pc = "returned"
    /\ spc = "done"
    /\ reads = stop_reads + 1
    /\ capture.latest_frame.lo = reads
    /\ reads \in accepted

\* C12: while shutdown() is on the main thread's stack the interrupted
\* read_frame, write_frame or rotation does not go on, so it raises nothing;
\* shutdown() is never started inside writer.write, its next step can always
\* be taken, and sys.exit leaves the slot's lock free; without shutdown,
\* cap.read() and writer.write run on an open capture and an open writer.
C12_ShutdownSafe ==
    /\ [](/\ hpc # "none" => pc # "wf_writing"
          /\ hpc \in {"sd_stop", "sd_close", "sd_exit"} => ENABLED Shutdown
          /\ pc = "exited" => capture.lock # MainId
          /\ err \notin {"AttributeError", "InvalidState"}
          /\ MainAt("rf_read") => capture.cap = "opened"
          /\ MainAt("wf_writing") => storage.writer = "opened")
    /\ [][hpc # "none" => (pc' = pc \/ (pc' = "exited" /\ hpc = "sd_exit"))]_vars

\* C12 witness: the signal came between the release() and the
\* self._writer = None of the close() of a rotation, and shutdown() closed
\* the Recorder a second time
C12_Witness ==
    /\ pc = "cl_clear"
    /\ hpc = "sd_exit"
    /\ releases = 2
    /\ storage.writer = "None"

\* C13: wherever the signal interrupts main(), shutdown() calls stop() before
\* close(): when close() is reached the source is not running and has no
\* transport (a started one was released); once close() is done no writer is
\* bound and no file is held open, and this stays so through sys.exit, after
\* which nothing runs: no session is opened again.
C13_ShutdownOrder ==
    /\ [](/\ hpc \in {"sd_close", "sd_exit", "done"} =>
                /\ stop_calls >= 1
                /\ ~capture.running
                /\ capture.cap = "None"
                /\ pc \notin {"m_start", "exited"} => cap_releases >= 1
          /\ hpc \in {"sd_exit", "done"} =>
                /\ storage.writer = "None"
                /\ \A p \in Paths : ~files[p].open
          /\ hpc = "done" => pc = "exited")
    /\ [][(hpc \in {"sd_exit", "done"} /\ hpc' # "sd_stop") =>
             /\ storage' = storage
             /\ files' = files
             /\ log' = log
             /\ capture'.running = capture.running
             /\ capture'.cap = capture.cap]_vars

\* C13 witness: the process has exited by shutdown() after a rotation, and
\* shutdown() closed the session the rotation had opened
C13_Witness ==
    /\ hpc = "done"
    /\ pc = "exited"
    /\ caller = "write_frame"
    /\ Len(log) >= 2
    /\ cap_releases = 1

RECURSIVE ConcatFiles(_)
\* the contents of the files named by the timestamps 1..p, in name order
ConcatFiles(p) == IF p = 0 THEN <<>> ELSE ConcatFiles(p - 1) \o files[p].frames

\* a sequence of frame numbers in capture order, none twice
InCaptureOrder(q) == \A i, j \in 1..Len(q) : i < j => q[i] < q[j]

\* C15: frames are numbered in the order cap.read() delivered them. The
\* frames passed to write_frame are frames 1, 2, 3, ... in that order, each
\* once and none before read_frame returned it; at the head of an iteration
\* of run_loop every frame read so far has been passed; and the files, taken
\* in the order of their names, hold frames that were passed, in that order.
C15_CaptureOrder ==
    /\ \A i \in 1..Len(handed) : handed[i] = i
    /\ Len(handed) <= returned
    /\ (config.save_locally /\ pc = "rl_while") => Len(handed) = reads
    /\ ~config.save_locally => handed = <<>>
    /\ InCaptureOrder(ConcatFiles(MaxClock))
    /\ \A p \in Paths : FramesIn(p) \subseteq 1..Len(handed)

\* C15 witness: frame 1 in the first segment and, after a rotation, frame 2
\* in the second
C15_Witness ==
    /\ pc = "rl_while"
    /\ handed = <<1, 2>>
    /\ files[1].frames = <<1>>
    /\ files[2].frames = <<2>>

\* C16: when open() has raised IOError, at startup or at the reopen of a
\* rotation, the process does not end before capture.stop() was called: the
\* source is not running and its transport was released.
C16_OrderlyShutdownOnIOError ==
    (pc = "crashed" /\ err = "IOError") =>
        /\ stop_calls >= 1
        /\ ~capture.running
        /\ capture.cap = "None"
        /\ cap_releases >= 1

C18_MjpegGenerator ==
    [][ApiCall("mjpeg") =>
          /\ err' = "ok"
          /\ resp'.next = "poll"
          /\ IF ~frame_source \/ returned = 0
             THEN /\ resp'.kind = "nothing"
                  /\ resp'.body = <<>>
             ELSE /\ resp'.kind = "part"
                  /\ resp'.body = JpegEncode(capture.latest_frame, 80).bytes
                  /\ resp'.body[2] = returned]_vars

\* C18 witness: read_frame has returned frames 1 and 2, and the iteration
\* yields the part of frame 2 alone
C18_Witness ==
    /\ lastOp = "mjpeg"
    /\ resp.kind = "part"
    /\ resp.body = <<80, 2, 2>>
    /\ returned = 2

\* C19: a session that open() or a rotation opens has a path no earlier
\* session of the run had: no file exists at it yet.
C19_SegmentOwnFile ==
    [][((ApiCall("open") \/ (ApiCall("write_frame") /\ rotated')) /\ err' = "ok") =>
          ~files[storage'.current_path].exists]_vars

\* C20: after an open() that raised IOError, is_recording is false and the
\* write_frame that follows raises InvalidState and writes nothing.
C20_FailedOpenLeavesClosed ==
    /\ []((lastOp = "open" /\ err = "IOError") => ~IsRecording(storage))
    /\ [][(ApiCall("write_frame") /\ lastOp = "open" /\ err = "IOError") =>
             /\ err' = "InvalidState"
             /\ storage' = storage
             /\ accepted' = accepted]_vars

====
